---- MODULE Spec2Model ----
(***************************************************************************)
(* A model of the tic-tac-toe engine of src/src/lib.rs: the Board, the     *)
(* game-state classifier, the move validator and the run loop, together    *)
(* with the calls the run loop makes on its Interface.                     *)
(***************************************************************************)
EXTENDS Integers, Sequences, FiniteSets, TLC

VARIABLES
    pc,             \* position of the single thread of control
    board,          \* Board.tiles: the HashMap<u8, TileState>
    current_player, \* run's current_player (a Player)
    input,          \* player_moves' input while it is live: the text accepted last
                    \* (a rejected text is never read again and is not kept)
    first,          \* the sign of the player choose_first_player returned
    lastCall,       \* the most recent call observed (operation, arguments, result)
    lastPlay,       \* the sign of the most recent on_play, "none" before the first
    nShow,          \* number of show_board calls so far
    nRetrieve,      \* number of retrieve_input calls of the current turn
    nPlay,          \* number of on_play calls so far, per sign
    nEnd,           \* number of on_end calls so far
    endState,       \* the GameState given to the last on_end, NoState before it
    afterEnd,       \* the collaborator calls made after on_end, in order
    lastInput       \* the text retrieve_input returned last in this turn: what
                    \* it names on the board, and whether set_tile was called

vars == <<pc, board, current_player, input, first, lastCall, lastPlay,
          nShow, nRetrieve, nPlay, nEnd, endState, afterEnd, lastInput>>

----------------------------------------------------------------------------
(* Bounds of the model *)

\* longest text given to validate_input in the validator's specification
MaxLen == 3
\* most inputs rejected within one turn of run
MaxRetries == 2
\* largest index given to set_tile in the board's specification
MaxIndex == 10

----------------------------------------------------------------------------
(* Data types *)

O == "Sign::O"
X == "Sign::X"
Sign == {O, X}

Sign_fmt(sign) == CASE sign = O -> "O" [] sign = X -> "X"

Empty == [tag |-> "Empty"]
Marked(sign) == [tag |-> "Marked", sign |-> sign]
TileState == {Empty} \cup {Marked(s) : s \in Sign}

NotOver == [tag |-> "NotOver"]
Full == [tag |-> "Full"]
Won(sign) == [tag |-> "Won", sign |-> sign]

Player(sign) == [sign |-> sign]

Ok(v) == [tag |-> "Ok", val |-> v]
Err(e) == [tag |-> "Err", msg |-> e]

Some(v) == [tag |-> "Some", val |-> v]
None == [tag |-> "None"]

U8Max == 255

----------------------------------------------------------------------------
(* Board *)

Board_new == [i \in 1..9 |-> Empty]

ErrMarked == "This tile is already marked. Please try another tile"

\* set_tile with the mark written before the cell is examined.
set_tile_overwrites(tiles, index, sign) ==
    IF index \in DOMAIN tiles
    THEN IF tiles[index] = Empty
         THEN [tiles |-> [tiles EXCEPT ![index] = Marked(sign)],
               result |-> Ok(index), panicked |-> FALSE]
         ELSE [tiles |-> [tiles EXCEPT ![index] = Marked(sign)],
               result |-> Err(ErrMarked), panicked |-> FALSE]
    ELSE [tiles |-> tiles, result |-> None, panicked |-> TRUE]

\* set_tile answering Ok for a marked cell too.
set_tile_ok_when_marked(tiles, index, sign) ==
    IF index \in DOMAIN tiles
    THEN IF tiles[index] = Empty
         THEN [tiles |-> [tiles EXCEPT ![index] = Marked(sign)],
               result |-> Ok(index), panicked |-> FALSE]
         ELSE [tiles |-> tiles, result |-> Ok(index), panicked |-> FALSE]
    ELSE [tiles |-> tiles, result |-> None, panicked |-> TRUE]

\* set_tile taking the index as zero-based: it works on the key after it.
set_tile_off_by_one(tiles, index, sign) ==
    IF index + 1 \in DOMAIN tiles
    THEN IF tiles[index + 1] = Empty
         THEN [tiles |-> [tiles EXCEPT ![index + 1] = Marked(sign)],
               result |-> Ok(index), panicked |-> FALSE]
         ELSE [tiles |-> tiles, result |-> Err(ErrMarked), panicked |-> FALSE]
    ELSE [tiles |-> tiles, result |-> None, panicked |-> TRUE]

\* set_tile filling a vacant entry instead of panicking.
set_tile_inserts(tiles, index, sign) ==
    IF index \in DOMAIN tiles
    THEN IF tiles[index] = Empty
         THEN [tiles |-> [tiles EXCEPT ![index] = Marked(sign)],
               result |-> Ok(index), panicked |-> FALSE]
         ELSE [tiles |-> tiles, result |-> Err(ErrMarked), panicked |-> FALSE]
    ELSE [tiles |-> [k \in DOMAIN tiles \cup {index} |->
                        IF k = index THEN Marked(sign) ELSE tiles[k]],
          result |-> Ok(index), panicked |-> FALSE]

\* set_tile emptying a marked cell on the refused call.
set_tile_clears(tiles, index, sign) ==
    IF index \in DOMAIN tiles
    THEN IF tiles[index] = Empty
         THEN [tiles |-> [tiles EXCEPT ![index] = Marked(sign)],
               result |-> Ok(index), panicked |-> FALSE]
         ELSE [tiles |-> [tiles EXCEPT ![index] = Empty],
               result |-> Err(ErrMarked), panicked |-> FALSE]
    ELSE [tiles |-> tiles, result |-> None, panicked |-> TRUE]

\* The outcome of set_tile: the tiles afterwards, the value returned, and
\* whether the call panicked (index is not a key of the map).
set_tile(tiles, index, sign) ==
    IF index \in DOMAIN tiles
    THEN IF tiles[index] = Empty
         THEN [tiles |-> [tiles EXCEPT ![index] = Marked(sign)],
               result |-> Ok(index), panicked |-> FALSE]
         ELSE [tiles |-> tiles, result |-> Err(ErrMarked), panicked |-> FALSE]
    ELSE [tiles |-> tiles, result |-> None, panicked |-> TRUE]

\* is_full with `any` for `all`.
is_full_any(tiles) == \E k \in DOMAIN tiles : tiles[k].tag = "Marked"

\* is_full matching Empty where it should match Marked.
is_full_all_empty(tiles) == \A k \in DOMAIN tiles : tiles[k].tag = "Empty"

is_full(tiles) == \A k \in DOMAIN tiles : tiles[k].tag = "Marked"

\* layouts with the second diagonal mistyped.
layouts_typo == << <<1, 2, 3>>, <<4, 5, 6>>, <<7, 8, 9>>,
                   <<1, 4, 7>>, <<2, 5, 8>>, <<3, 6, 9>>,
                   <<1, 5, 9>>, <<3, 5, 8>> >>

\* layouts scanned from the last one to the first.
layouts_reversed == << <<3, 5, 7>>, <<1, 5, 9>>,
                       <<3, 6, 9>>, <<2, 5, 8>>, <<1, 4, 7>>,
                       <<7, 8, 9>>, <<4, 5, 6>>, <<1, 2, 3>> >>

layouts == << <<1, 2, 3>>, <<4, 5, 6>>, <<7, 8, 9>>,
              <<1, 4, 7>>, <<2, 5, 8>>, <<3, 6, 9>>,
              <<1, 5, 9>>, <<3, 5, 7>> >>

\* One iteration of get_winner's loop: whether the layout is marked throughout
\* with one sign.
layout_matches(tiles, layout) ==
    LET s1 == tiles[layout[1]]
        s2 == tiles[layout[2]]
        s3 == tiles[layout[3]]
    IN  /\ s1.tag = "Marked" /\ s2.tag = "Marked" /\ s3.tag = "Marked"
        /\ s1.sign = s2.sign /\ s2.sign = s3.sign

RECURSIVE scan_layouts(_, _)
scan_layouts(tiles, k) ==
    IF k > Len(layouts) THEN None
    ELSE IF layout_matches(tiles, layouts[k])
         THEN Some(tiles[layouts[k][1]].sign)
         ELSE scan_layouts(tiles, k + 1)

get_winner(tiles) == scan_layouts(tiles, 1)

\* get_game_state asking for fullness before the winner.
get_game_state_full_first(tiles) ==
    LET winner == get_winner(tiles)
    IN  IF is_full(tiles) THEN Full
        ELSE IF winner.tag = "Some" THEN Won(winner.val)
        ELSE NotOver

\* get_game_state without the Full arm.
get_game_state_no_full(tiles) ==
    LET winner == get_winner(tiles)
    IN  IF winner.tag = "Some" THEN Won(winner.val)
        ELSE NotOver

get_game_state(tiles) ==
    LET winner == get_winner(tiles)
    IN  IF winner.tag = "Some" THEN Won(winner.val)
        ELSE IF is_full(tiles) THEN Full
        ELSE NotOver

----------------------------------------------------------------------------
(* Move validator *)

ErrRange == "Please enter a number between 1 and 9"

Digits == <<"0", "1", "2", "3", "4", "5", "6", "7", "8", "9">>
IsDigit(c) == \E d \in 1..10 : Digits[d] = c
DigitVal(c) == (CHOOSE d \in 1..10 : Digits[d] = c) - 1

IsWhitespace(c) == c \in {" ", "\t", "\n", "\r"}

RECURSIVE trim_start(_)
trim_start(s) ==
    IF s # <<>> /\ IsWhitespace(Head(s)) THEN trim_start(Tail(s)) ELSE s

RECURSIVE trim_end(_)
trim_end(s) ==
    IF s # <<>> /\ IsWhitespace(s[Len(s)])
    THEN trim_end(SubSeq(s, 1, Len(s) - 1)) ELSE s

trim(s) == trim_end(trim_start(s))

\* The digit loop of str::parse::<u8>: checked multiply and add, left to right.
RECURSIVE parse_digits(_, _)
parse_digits(s, acc) ==
    IF s = <<>> THEN Ok(acc)
    ELSE IF ~IsDigit(Head(s)) THEN Err("InvalidDigit")
    ELSE IF acc * 10 > U8Max THEN Err("PosOverflow")
    ELSE IF acc * 10 + DigitVal(Head(s)) > U8Max THEN Err("PosOverflow")
    ELSE parse_digits(Tail(s), acc * 10 + DigitVal(Head(s)))

\* str::parse::<u8>: no empty text, no lone sign, one leading "+" allowed.
parse_u8(s) ==
    IF s = <<>> THEN Err("Empty")
    ELSE IF s = <<"+">> \/ s = <<"-">> THEN Err("InvalidDigit")
    ELSE IF Head(s) = "+" THEN parse_digits(Tail(s), 0)
    ELSE parse_digits(s, 0)

\* validate_input with the range starting at 0.
validate_input_from_zero(text) ==
    LET parsed == parse_u8(trim(text))
    IN  IF parsed.tag = "Ok" /\ parsed.val \in 0..9
        THEN Ok(parsed.val)
        ELSE Err(ErrRange)

validate_input(text) ==
    LET parsed == parse_u8(trim(text))
    IN  IF parsed.tag = "Ok" /\ parsed.val \in 1..9
        THEN Ok(parsed.val)
        ELSE Err(ErrRange)

----------------------------------------------------------------------------
(* Texts and the numbers they write *)

Whitespace == {" ", "\t", "\n", "\r"}
DigitChars == {"0", "1", "2", "3", "4", "5", "6", "7", "8", "9"}

\* The text without its leading and trailing whitespace.
Core(text) ==
    LET solid == {i \in 1..Len(text) : text[i] \notin Whitespace}
    IN  IF solid = {} THEN <<>>
        ELSE SubSeq(text, CHOOSE i \in solid : \A j \in solid : i <= j,
                          CHOOSE i \in solid : \A j \in solid : i >= j)

\* The number a sequence of digits writes, as an integer of any size.
RECURSIVE NumeralValue(_)
NumeralValue(ds) ==
    IF ds = <<>> THEN 0
    ELSE 10 * NumeralValue(SubSeq(ds, 1, Len(ds) - 1))
         + (CHOOSE d \in 0..9 : Digits[d + 1] = ds[Len(ds)])

IsNumeral(ds) == ds # <<>> /\ \A i \in 1..Len(ds) : ds[i] \in DigitChars

\* The text after one leading "+", if it has one.
Unsigned(text) == IF text # <<>> /\ Head(text) = "+" THEN Tail(text) ELSE text

\* What a text names on a board: the number it writes is no index in 1..9,
\* or the index of a marked cell, or the index of an empty cell.
InputKind(text, tiles) ==
    LET digits == Unsigned(Core(text))
    IN  IF ~(IsNumeral(digits) /\ NumeralValue(digits) \in 1..9)
        THEN "no_index"
        ELSE IF tiles[NumeralValue(digits)] # Empty THEN "marked_cell"
        ELSE "empty_cell"

----------------------------------------------------------------------------
(* The run loop and its Interface *)

players == <<Player(O), Player(X)>>

NoCall == [op |-> "none"]
NoState == [tag |-> "none"]
NoInput == [kind |-> "none", called |-> FALSE]

Prompt(sign) == Sign_fmt(sign) \o ", please enter a tile number (1-9):"

\* The texts the collaborator returns from retrieve_input in the model of run.
RunInputs == {<<Digits[d]>> : d \in 1..10} \cup {<<"x">>}

\* The scrutinee with one message for every refusal.
try_move_one_message(text, tiles, sign) ==
    LET v == validate_input(text)
        r == set_tile(tiles, v.val, sign)
    IN  IF v.tag = "Ok"
        THEN [called |-> TRUE] @@
             [r EXCEPT !.result = IF r.result.tag = "Err"
                                  THEN Err(ErrRange) ELSE r.result]
        ELSE [tiles |-> tiles, result |-> v, panicked |-> FALSE,
              called |-> FALSE]

\* The scrutinee of player_moves' match:
\* validate_input(&input).and_then(|i| board.set_tile(i, player.sign))
try_move(text, tiles, sign) ==
    LET v == validate_input(text)
    IN  IF v.tag = "Ok"
        THEN [called |-> TRUE] @@ set_tile(tiles, v.val, sign)
        ELSE [tiles |-> tiles, result |-> v, panicked |-> FALSE,
              called |-> FALSE]

\* The texts retrieve_input may return when `rejected` inputs were already
\* rejected in this turn: any text, until MaxRetries were rejected.
InputsAt(rejected, tiles, sign) ==
    IF rejected < MaxRetries THEN RunInputs
    ELSE {t \in RunInputs : try_move(t, tiles, sign).result.tag = "Ok"}

\* other_player without the flip.
other_player_same(player) ==
    CASE player.sign = O -> players[1]
      [] player.sign = X -> players[2]

other_player(player) ==
    CASE player.sign = O -> players[2]
      [] player.sign = X -> players[1]

Init ==
    /\ pc = "choose_first_player"
    /\ board = Board_new
    /\ current_player = players[1]
    /\ input = <<>>
    /\ first = "none"
    /\ lastCall = NoCall
    /\ lastPlay = "none"
    /\ nShow = 0
    /\ nRetrieve = 0
    /\ nPlay = [s \in Sign |-> 0]
    /\ nEnd = 0
    /\ endState = NoState
    /\ afterEnd = <<>>
    /\ lastInput = NoInput

\* The calls observed after on_end, with the call `op` made now.
Observed(op) == IF nEnd > 0 THEN Append(afterEnd, op) ELSE afterEnd

\* lib.rs 166-172
ChooseFirstPlayer ==
    /\ pc = "choose_first_player"
    /\ \E p \in {players[1], players[2]} :
          /\ current_player' = p
          /\ first' = p.sign
          /\ lastCall' = [op |-> "choose_first_player", sign |-> p.sign]
    /\ board' = Board_new
    /\ pc' = "while"
    /\ UNCHANGED <<input, lastPlay, nShow, nRetrieve, nPlay, nEnd, endState,
                   afterEnd, lastInput>>

\* The loop condition looking at fullness alone.
WhileCheck_until_full ==
    /\ pc = "while"
    /\ pc' = IF ~is_full(board) THEN "show_board" ELSE "on_end"
    /\ UNCHANGED <<board, current_player, input, first, lastCall, lastPlay,
                   nShow, nRetrieve, nPlay, nEnd, endState, afterEnd, lastInput>>

\* lib.rs 174: the loop condition
WhileCheck ==
    /\ pc = "while"
    /\ pc' = IF get_game_state(board) = NotOver THEN "show_board" ELSE "on_end"
    /\ UNCHANGED <<board, current_player, input, first, lastCall, lastPlay,
                   nShow, nRetrieve, nPlay, nEnd, endState, afterEnd, lastInput>>

\* lib.rs 175
ShowBoard ==
    /\ pc = "show_board"
    /\ lastCall' = [op |-> "show_board", board |-> board]
    /\ nShow' = nShow + 1
    /\ afterEnd' = Observed("show_board")
    /\ pc' = "player_moves"
    /\ UNCHANGED <<board, current_player, input, first, lastPlay, nRetrieve,
                   nPlay, nEnd, endState, lastInput>>

\* lib.rs 189: player_moves calls retrieve_input with the turn's prompt
CallRetrieveInput ==
    /\ pc = "player_moves"
    /\ lastCall' = [op |-> "retrieve_input",
                    message |-> Prompt(current_player.sign)]
    /\ nRetrieve' = nRetrieve + 1
    /\ afterEnd' = Observed("retrieve_input")
    /\ pc' = "retrieve_input"
    /\ UNCHANGED <<board, current_player, input, first, lastPlay, nShow, nPlay,
                   nEnd, endState, lastInput>>

\* player_moves showing the board again before it asks again.
ReturnInput_reshow ==
    /\ pc = "retrieve_input"
    /\ \E t \in InputsAt(nRetrieve - 1, board, current_player.sign) :
         LET r == try_move(t, board, current_player.sign)
         IN  /\ input' = IF r.result.tag = "Err" THEN <<>> ELSE t
             /\ lastInput' = [kind |-> InputKind(t, board), called |-> r.called]
             /\ board' = r.tiles
             /\ IF r.result.tag = "Ok"
                THEN /\ lastCall' = [op |-> "on_play",
                                     sign |-> current_player.sign,
                                     index |-> r.result.val]
                     /\ lastPlay' = current_player.sign
                     /\ nPlay' = [nPlay EXCEPT ![current_player.sign] = @ + 1]
                     /\ afterEnd' = Observed("on_play")
                     /\ pc' = "advance"
                     /\ UNCHANGED <<nRetrieve, nShow>>
                ELSE /\ lastCall' = [op |-> "retrieve_input",
                                     message |-> r.result.msg]
                     /\ nShow' = nShow + 1
                     /\ nRetrieve' = nRetrieve + 1
                     /\ afterEnd' = Observed("retrieve_input")
                     /\ pc' = "retrieve_input"
                     /\ UNCHANGED <<lastPlay, nPlay>>
    /\ UNCHANGED <<current_player, first, nEnd, endState>>

\* lib.rs 189-195: retrieve_input returns a text, and one iteration of the
\* loop of player_moves handles it: on_play and return, or retrieve_input
\* again with the error.
ReturnInput ==
    /\ pc = "retrieve_input"
    /\ \E t \in InputsAt(nRetrieve - 1, board, current_player.sign) :
         LET r == try_move(t, board, current_player.sign)
         IN  /\ input' = IF r.result.tag = "Err" THEN <<>> ELSE t
             /\ lastInput' = [kind |-> InputKind(t, board), called |-> r.called]
             /\ board' = r.tiles
             /\ IF r.panicked
                THEN /\ pc' = "panicked"
                     /\ UNCHANGED <<lastCall, lastPlay, nRetrieve, nPlay, afterEnd>>
                ELSE IF r.result.tag = "Ok"
                THEN /\ lastCall' = [op |-> "on_play",
                                     sign |-> current_player.sign,
                                     index |-> r.result.val]
                     /\ lastPlay' = current_player.sign
                     /\ nPlay' = [nPlay EXCEPT ![current_player.sign] = @ + 1]
                     /\ afterEnd' = Observed("on_play")
                     /\ pc' = "advance"
                     /\ UNCHANGED nRetrieve
                ELSE /\ lastCall' = [op |-> "retrieve_input",
                                     message |-> r.result.msg]
                     /\ nRetrieve' = nRetrieve + 1
                     /\ afterEnd' = Observed("retrieve_input")
                     /\ pc' = "retrieve_input"
                     /\ UNCHANGED <<lastPlay, nPlay>>
    /\ UNCHANGED <<current_player, first, nShow, nEnd, endState>>

\* lib.rs 178-181: player_moves has returned; the other player is next
Advance ==
    /\ pc = "advance"
    /\ current_player' = other_player(current_player)
    /\ input' = <<>>
    /\ lastInput' = NoInput
    /\ nRetrieve' = 0
    /\ pc' = "while"
    /\ UNCHANGED <<board, first, lastCall, lastPlay, nShow, nPlay, nEnd,
                   endState, afterEnd>>

\* run returning right after on_end, without the last show_board.
OnEnd_no_final_show ==
    /\ pc = "on_end"
    /\ lastCall' = [op |-> "on_end", game_state |-> get_game_state(board)]
    /\ endState' = get_game_state(board)
    /\ nEnd' = nEnd + 1
    /\ pc' = "done"
    /\ UNCHANGED <<board, current_player, input, first, lastPlay, nShow,
                   nRetrieve, nPlay, afterEnd, lastInput>>

\* lib.rs 184
OnEnd ==
    /\ pc = "on_end"
    /\ lastCall' = [op |-> "on_end", game_state |-> get_game_state(board)]
    /\ endState' = get_game_state(board)
    /\ nEnd' = nEnd + 1
    /\ pc' = "final_show_board"
    /\ UNCHANGED <<board, current_player, input, first, lastPlay, nShow,
                   nRetrieve, nPlay, afterEnd, lastInput>>

\* lib.rs 185
FinalShowBoard ==
    /\ pc = "final_show_board"
    /\ lastCall' = [op |-> "show_board", board |-> board]
    /\ nShow' = nShow + 1
    /\ afterEnd' = Observed("show_board")
    /\ pc' = "done"
    /\ UNCHANGED <<board, current_player, input, first, lastPlay, nRetrieve,
                   nPlay, nEnd, endState, lastInput>>

Next ==
    \/ ChooseFirstPlayer
    \/ WhileCheck
    \/ ShowBoard
    \/ CallRetrieveInput
    \/ ReturnInput
    \/ Advance
    \/ OnEnd
    \/ FinalShowBoard

Spec == Init /\ [][Next]_vars

----------------------------------------------------------------------------
(* The Board under any sequence of calls of its public operations *)

\* The caller holds nothing of the board; only pc, board and lastCall move.
InitBoard ==
    /\ pc = "board_ready"
    /\ board = Board_new
    /\ current_player = players[1]
    /\ input = <<>>
    /\ first = "none"
    /\ lastCall = NoCall
    /\ lastPlay = "none"
    /\ nShow = 0
    /\ nRetrieve = 0
    /\ nPlay = [s \in Sign |-> 0]
    /\ nEnd = 0
    /\ endState = NoState
    /\ afterEnd = <<>>
    /\ lastInput = NoInput

rest == <<current_player, first, lastPlay, nShow, nRetrieve, nPlay, nEnd,
          endState, afterEnd, lastInput>>

\* lib.rs 75-86, with any u8 index up to MaxIndex and any sign
SetTile ==
    /\ pc = "board_ready"
    /\ \E index \in 0..MaxIndex, sign \in Sign :
         LET r == set_tile(board, index, sign)
         IN  /\ board' = r.tiles
             /\ lastCall' = [op |-> "set_tile", index |-> index, sign |-> sign,
                             result |-> r.result, panicked |-> r.panicked]
             /\ pc' = IF r.panicked THEN "board_panicked" ELSE "board_returned"
    /\ UNCHANGED <<input, rest>>

\* lib.rs 88-128: the queries, which take the board by shared reference
Query ==
    /\ pc = "board_ready"
    /\ \/ lastCall' = [op |-> "is_full", result |-> is_full(board)]
       \/ lastCall' = [op |-> "get_winner", result |-> get_winner(board)]
       \/ lastCall' = [op |-> "get_game_state", result |-> get_game_state(board)]
    /\ pc' = "board_returned"
    /\ UNCHANGED <<board, input, rest>>

\* The caller drops the value returned (set_tile's Result borrows the board)
\* and may call again.
DropResult ==
    /\ pc = "board_returned"
    /\ lastCall' = NoCall
    /\ pc' = "board_ready"
    /\ UNCHANGED <<board, input, rest>>

NextBoard == SetTile \/ Query \/ DropResult

SpecBoard == InitBoard /\ [][NextBoard]_vars

----------------------------------------------------------------------------
(* validate_input on any text of up to MaxLen characters *)

Chars == {" ", "\n", "+", "-", "0", "1", "2", "5", "7", "9", "x"}

Texts == UNION {[1..k -> Chars] : k \in 0..MaxLen}

InitValidate ==
    /\ pc = "validate_input"
    /\ input \in Texts
    /\ board = Board_new
    /\ current_player = players[1]
    /\ first = "none"
    /\ lastCall = NoCall
    /\ lastPlay = "none"
    /\ nShow = 0
    /\ nRetrieve = 0
    /\ nPlay = [s \in Sign |-> 0]
    /\ nEnd = 0
    /\ endState = NoState
    /\ afterEnd = <<>>
    /\ lastInput = NoInput

\* lib.rs 198-203
ValidateInput ==
    /\ pc = "validate_input"
    /\ lastCall' = [op |-> "validate_input", result |-> validate_input(input)]
    /\ pc' = "validated"
    /\ UNCHANGED <<board, input, rest>>

NextValidate == ValidateInput

SpecValidate == InitValidate /\ [][NextValidate]_vars

----------------------------------------------------------------------------
(* Vocabulary of the properties *)

OtherSign(sign) == IF sign = O THEN X ELSE O

\* The three rows, the three columns and the two diagonals.
WinningTriples == {{1, 2, 3}, {4, 5, 6}, {7, 8, 9},
                   {1, 4, 7}, {2, 5, 8}, {3, 6, 9},
                   {1, 5, 9}, {3, 5, 7}}

Uniform(tiles, triple, sign) == \A i \in triple : tiles[i] = Marked(sign)
HasLine(tiles, sign) == \E triple \in WinningTriples : Uniform(tiles, triple, sign)
AllMarked(tiles) == \A i \in 1..9 : tiles[i] \in {Marked(O), Marked(X)}
Terminal(tiles) == HasLine(tiles, O) \/ HasLine(tiles, X) \/ AllMarked(tiles)
MarkCount(tiles, sign) == Cardinality({i \in 1..9 : tiles[i] = Marked(sign)})

\* This step makes a collaborator call.
CallMade ==
    \/ nShow' # nShow
    \/ nRetrieve' > nRetrieve
    \/ nPlay' # nPlay
    \/ nEnd' # nEnd

\* This step is retrieve_input returning a text to player_moves.
InputRead == pc = "retrieve_input" /\ (pc' # pc \/ CallMade)

\* The text just read is rejected: player_moves asks again.
InputRejected == InputRead /\ nRetrieve' = nRetrieve + 1

----------------------------------------------------------------------------
(* Properties of run *)

\* C1: the signs of successive on_play notifications alternate, starting with
\* the sign choose_first_player returned; a rejected input leaves the turn
\* with the same player, and no player is notified twice in a row.
C1_TurnsAlternate ==
    [][/\ nPlay' # nPlay =>
            /\ lastCall'.op = "on_play"
            /\ lastCall'.sign = IF lastPlay = "none" THEN first
                                ELSE OtherSign(lastPlay)
            /\ lastPlay' = lastCall'.sign
            /\ nPlay'[O] + nPlay'[X] = nPlay[O] + nPlay[X] + 1
       /\ InputRejected =>
            /\ current_player' = current_player
            /\ nPlay' = nPlay
            /\ lastPlay' = lastPlay
      ]_vars

\* Both players have played, and the last move came after a rejected input.
C1_Witness ==
    /\ lastCall.op = "on_play"
    /\ nPlay[O] >= 2 /\ nPlay[X] >= 2
    /\ nRetrieve >= 2
    /\ first = X

\* C2: in a run that terminates on_end is called exactly once, with the
\* classification of the final board, which is Full or Won(sign); it comes
\* after the last on_play and is followed by exactly one show_board and no
\* retrieve_input or on_play.
C2_EndOnce ==
    /\ nEnd <= 1
    /\ nEnd = 0 <=> endState = NoState
    /\ nEnd = 1 =>
         /\ endState \in {Full, Won(O), Won(X)}
         /\ endState = IF HasLine(board, O) THEN Won(O)
                       ELSE IF HasLine(board, X) THEN Won(X) ELSE Full
         /\ Terminal(board)
         /\ afterEnd \in {<<>>, <<"show_board">>}
         /\ pc \in {"final_show_board", "done"}
    /\ pc = "done" => nEnd = 1 /\ afterEnd = <<"show_board">>
    /\ pc = "final_show_board" => nEnd = 1 /\ afterEnd = <<>>

\* A finished game that was won.
C2_Witness ==
    /\ pc = "done"
    /\ nEnd = 1
    /\ endState = Won(X)
    /\ afterEnd = <<"show_board">>

\* C3: run stops at the first successful move that leaves the board Won or
\* Full: the call after that move's on_play is on_end, no input is requested
\* any more, and set_tile is never applied to a board that is Won or Full.
C3_StopsAtFirstEnd ==
    [][/\ (lastCall.op = "on_play" /\ Terminal(board) /\ CallMade) =>
            /\ lastCall'.op = "on_end"
            /\ nEnd' = nEnd + 1
       /\ InputRead => ~Terminal(board)
       /\ (Terminal(board) /\ pc # "choose_first_player") =>
            /\ board' = board
            /\ nRetrieve' <= nRetrieve
            /\ nPlay' = nPlay
      ]_vars

\* The first player took 1, 4 and 7, the second 2 and 5, and on_end reported
\* the first player's win after these five moves.
C3_Witness ==
    /\ nEnd = 1
    /\ endState = Won(first)
    /\ board = [i \in 1..9 |-> IF i \in {1, 4, 7} THEN Marked(first)
                               ELSE IF i \in {2, 5} THEN Marked(OtherSign(first))
                               ELSE Empty]
    /\ nPlay[first] = 3 /\ nPlay[OtherSign(first)] = 2

\* C4: a rejected input, whether it is no index in 1..9 or names a marked
\* cell, leaves the board as it was, is not followed by on_play, and the same
\* player is asked again in the same turn.
C4_RejectionKeepsBoard ==
    [][InputRejected =>
          /\ board' = board
          /\ nPlay' = nPlay /\ lastPlay' = lastPlay
          /\ lastCall'.op = "retrieve_input"
          /\ lastCall'.message \in {ErrRange, ErrMarked}
          /\ nShow' = nShow
          /\ current_player' = current_player
          /\ pc' = "retrieve_input"
      ]_vars

\* An input was rejected because its cell is marked, after one that was
\* rejected as no index, in a turn of the second player.
C4_Witness ==
    /\ pc = "retrieve_input"
    /\ nRetrieve = 3
    /\ lastCall = [op |-> "retrieve_input", message |-> ErrMarked]
    /\ current_player.sign # first
    /\ MarkCount(board, O) + MarkCount(board, X) = 3

\* C8: the winner is looked for before fullness: a board with a uniformly
\* marked triple classifies as Won, never Full, and a ninth move that fills
\* the board and completes a triple makes on_end receive Won(mover's sign).
C8_WonBeforeFull ==
    /\ (HasLine(board, O) \/ HasLine(board, X)) =>
          /\ get_game_state(board).tag = "Won"
          /\ get_game_state(board) # Full
    /\ (nEnd = 1 /\ nPlay[O] + nPlay[X] = 9
             /\ (HasLine(board, O) \/ HasLine(board, X))) =>
          /\ endState = Won(lastPlay)
          /\ HasLine(board, lastPlay)

\* The first player's fifth move filled the board and won.
C8_Witness ==
    /\ nEnd = 1
    /\ nPlay[first] = 5 /\ nPlay[OtherSign(first)] = 4
    /\ AllMarked(board)
    /\ HasLine(board, first)
    /\ endState = Won(first)

\* C10: is_full holds iff all nine cells are marked, the classification is
\* Full iff moreover no triple is uniformly marked, and on_end receives Full
\* only after nine successful moves, five of the first player and four of
\* the second, none of which completed a triple.
C10_FullIsDraw ==
    /\ is_full(board) <=> AllMarked(board)
    /\ get_game_state(board) = Full <=>
          (AllMarked(board) /\ ~HasLine(board, O) /\ ~HasLine(board, X))
    /\ (nEnd = 1 /\ endState = Full) =>
          /\ nPlay[first] = 5 /\ nPlay[OtherSign(first)] = 4
          /\ MarkCount(board, first) = 5
          /\ MarkCount(board, OtherSign(first)) = 4
          /\ ~HasLine(board, O) /\ ~HasLine(board, X)

\* The game 5,2,6,4,1,9,7,3,8 begun by O has ended in a draw.
C10_Witness ==
    /\ pc = "done"
    /\ first = O
    /\ endState = Full
    /\ board = [i \in 1..9 |-> IF i \in {5, 6, 1, 7, 8} THEN Marked(O)
                               ELSE Marked(X)]

----------------------------------------------------------------------------
(* Properties of the Board *)

\* This step is a call of set_tile.
SetTileStep == pc = "board_ready" /\ lastCall'.op = "set_tile"

\* C5: set_tile on a marked cell, with the same sign or the other one, returns
\* an error and leaves all nine cells as they were.
C5_MarkedCellRefused ==
    [][(SetTileStep /\ lastCall'.index \in 1..9
             /\ board[lastCall'.index] # Empty) =>
          /\ lastCall'.result.tag = "Err"
          /\ ~lastCall'.panicked
          /\ board' = board
      ]_vars

\* set_tile was refused on a cell holding the other sign.
C5_Witness ==
    /\ pc = "board_returned"
    /\ lastCall.op = "set_tile"
    /\ lastCall.result.tag = "Err"
    /\ board[lastCall.index] = Marked(OtherSign(lastCall.sign))

\* C6: set_tile on an empty cell succeeds and returns the index; the cell is
\* then marked with the sign and the other eight cells are unchanged.
C6_EmptyCellMarked ==
    [][(SetTileStep /\ lastCall'.index \in 1..9
             /\ board[lastCall'.index] = Empty) =>
          /\ lastCall'.result = Ok(lastCall'.index)
          /\ ~lastCall'.panicked
          /\ DOMAIN board' = 1..9
          /\ board'[lastCall'.index] = Marked(lastCall'.sign)
          /\ \A j \in (1..9) \ {lastCall'.index} : board'[j] = board[j]
      ]_vars

\* set_tile has just marked cell 9 with X on a board that held marks already.
C6_Witness ==
    /\ pc = "board_returned"
    /\ lastCall = [op |-> "set_tile", index |-> 9, sign |-> X,
                   result |-> Ok(9), panicked |-> FALSE]
    /\ board[9] = Marked(X)
    /\ MarkCount(board, O) = 2

\* C7 as stated: a triple uniformly marked with a sign makes get_winner
\* return that sign and get_game_state Won(that sign), whatever the other six
\* cells hold.
C7_AnyOtherCells ==
    \A triple \in WinningTriples, sign \in Sign :
        Uniform(board, triple, sign) =>
            /\ get_winner(board) = Some(sign)
            /\ get_game_state(board) = Won(sign)

\* C7 amended: a triple uniformly marked with a sign makes get_winner return
\* that sign and get_game_state Won(that sign), whatever the other six cells
\* hold as long as no triple is uniformly marked with the other sign, also
\* when all nine cells are marked.
C7_NoOtherLine ==
    \A triple \in WinningTriples, sign \in Sign :
        (Uniform(board, triple, sign) /\ ~HasLine(board, OtherSign(sign))) =>
            /\ get_winner(board) = Some(sign)
            /\ get_game_state(board) = Won(sign)

\* get_game_state answered Won(X) on a board of nine marks whose only line is
\* the second diagonal.
C7_Witness ==
    /\ pc = "board_returned"
    /\ lastCall.op = "get_game_state"
    /\ lastCall.result = Won(X)
    /\ AllMarked(board)
    /\ Uniform(board, {3, 5, 7}, X)
    /\ \A triple \in WinningTriples \ {{3, 5, 7}} :
          ~Uniform(board, triple, X) /\ ~Uniform(board, triple, O)

----------------------------------------------------------------------------
(* Properties of validate_input *)

\* C9 as stated: validate_input accepts exactly the texts that are "1".."9"
\* once trimmed, and returns the index they write.
C9_ExactlyOneToNine ==
    pc = "validated" =>
        /\ lastCall.result.tag = "Ok" <=>
              \E d \in 1..9 : Core(input) = <<Digits[d + 1]>>
        /\ lastCall.result.tag = "Ok" =>
              Core(input) = <<Digits[lastCall.result.val + 1]>>

\* C9 amended: validate_input accepts exactly the texts that, once trimmed,
\* are an optional "+" followed by one or more decimal digits writing a
\* number from 1 to 9 (leading zeros allowed), and returns that number; it
\* rejects every other text, "0", "10", text that is no number, empty text
\* and numerals beyond the parsed integer type among them.
C9_NumeralOneToNine ==
    pc = "validated" =>
        LET digits == Unsigned(Core(input))
            accepted == IsNumeral(digits) /\ NumeralValue(digits) \in 1..9
        IN  /\ lastCall.result.tag = "Ok" <=> accepted
            /\ accepted => lastCall.result = Ok(NumeralValue(digits))
            /\ ~accepted => lastCall.result = Err(ErrRange)

\* validate_input accepted "+07" as index 7.
C9_Witness ==
    /\ pc = "validated"
    /\ input = <<"+", "0", "7">>
    /\ lastCall = [op |-> "validate_input", result |-> Ok(7)]

----------------------------------------------------------------------------
(* Termination of run *)

\* How far the thread is from the end of the current iteration of run's loop.
PcRank ==
    CASE pc = "choose_first_player" -> MaxRetries + 8
      [] pc = "advance" -> MaxRetries + 7
      [] pc = "while" -> MaxRetries + 6
      [] pc = "show_board" -> MaxRetries + 5
      [] pc = "player_moves" -> MaxRetries + 4
      [] pc = "retrieve_input" -> MaxRetries + 4 - nRetrieve
      [] pc = "on_end" -> 2
      [] pc = "final_show_board" -> 1
      [] OTHER -> 0

\* A variant of run: the empty cells first, then the rank of the position.
Measure ==
    (9 - MarkCount(board, O) - MarkCount(board, X)) * (MaxRetries + 9) + PcRank

\* C11: when every turn receives an accepted input in the end (at most
\* MaxRetries inputs of a turn are rejected), run terminates: every step
\* decreases a variant that is never negative, run is never stuck before it
\* has returned (every position but retrieve_input steps on its own, and
\* there some text is accepted), and on_end is called after at most 9
\* successful moves. The core itself sets no limit: below MaxRetries another
\* rejection is possible.
C11_Terminates ==
    /\ [][Measure' < Measure]_vars
    /\ [](Measure >= 0)
    /\ [](pc \in {"choose_first_player", "while", "show_board",
                  "player_moves", "retrieve_input", "advance", "on_end",
                  "final_show_board", "done"})
    /\ [](pc = "retrieve_input" =>
             InputsAt(nRetrieve - 1, board, current_player.sign) # {})
    /\ [](pc = "done" => nEnd = 1)
    /\ [](nPlay[O] + nPlay[X] <= 9)
    /\ []((pc = "retrieve_input" /\ nRetrieve <= MaxRetries) =>
             \E t \in InputsAt(nRetrieve - 1, board, current_player.sign) :
                 try_move(t, board, current_player.sign).result.tag = "Err")

\* run has returned after nine moves, the last of them accepted after
\* two rejected inputs.
C11_Witness ==
    /\ pc = "done"
    /\ nEnd = 1
    /\ nPlay[O] + nPlay[X] = 9
    /\ endState = Full
    /\ input = <<>>
    /\ lastCall.op = "show_board"
    /\ first = X

----------------------------------------------------------------------------
(* Further properties of run *)

\* C12: no input makes run abort: set_tile is only called with an index in
\* 1..9 that validate_input returned, so neither set_tile's panic nor the
\* unwraps of get_winner's cell lookups are reached.
C12_RunNeverPanics ==
    /\ pc # "panicked"
    /\ DOMAIN board = 1..9
    /\ lastCall.op = "on_play" =>
          /\ lastCall.index \in 1..9
          /\ board[lastCall.index] = Marked(lastCall.sign)
    /\ input # <<>> =>
          /\ IsNumeral(Unsigned(Core(input)))
          /\ NumeralValue(Unsigned(Core(input))) \in 1..9

\* A move on cell 9 was accepted after two rejected inputs.
C12_Witness ==
    /\ pc = "advance"
    /\ input = <<"9">>
    /\ lastCall.op = "on_play"
    /\ lastCall.index = 9
    /\ nRetrieve = 3

\* C14: the board of Board::new() has nine Empty cells, is not full, has no
\* winner and classifies as NotOver, so run plays at least one turn before
\* on_end.
C14_FreshBoard ==
    /\ (pc # "choose_first_player" /\ nPlay[O] + nPlay[X] = 0) =>
          /\ DOMAIN board = 1..9
          /\ \A i \in 1..9 : board[i] = Empty
          /\ ~is_full(board)
          /\ get_winner(board) = None
          /\ get_game_state(board) = NotOver
          /\ nEnd = 0
          /\ pc \in {"while", "show_board", "player_moves", "retrieve_input"}
    /\ nEnd >= 1 => (nPlay[O] + nPlay[X] >= 1 /\ nShow >= 2)

\* The first turn of a game has been played.
C14_Witness ==
    /\ pc = "advance"
    /\ nPlay[O] + nPlay[X] = 1
    /\ nShow = 1
    /\ nEnd = 0

\* The marks of the first player less those of the second.
Lead == MarkCount(board, first) - MarkCount(board, OtherSign(first))

\* C19: the first player's marks less the second player's are 0 or 1: 0
\* exactly when the first player is the one to move, 1 exactly when the
\* second is.
C19_MarkBalance ==
    pc # "choose_first_player" =>
        /\ Lead \in {0, 1}
        /\ pc \in {"while", "show_board", "player_moves", "retrieve_input"} =>
              /\ Lead = 0 <=> current_player.sign = first
              /\ Lead = 1 <=> current_player.sign = OtherSign(first)

\* At the top of the loop the second player is to move on a board of 7 marks.
C19_Witness ==
    /\ pc = "while"
    /\ first = X
    /\ current_player.sign = O
    /\ MarkCount(board, X) = 4 /\ MarkCount(board, O) = 3

\* C20: at most one sign has a uniformly marked triple, and when on_end
\* receives Won(s), s is the sign of the last on_play; the order in which
\* get_winner scans the triples does not change the outcome.
C20_OneWinner ==
    /\ ~(HasLine(board, O) /\ HasLine(board, X))
    /\ \A sign \in Sign : HasLine(board, sign) => get_winner(board) = Some(sign)
    /\ (nEnd = 1 /\ endState.tag = "Won") =>
          /\ endState.sign = lastPlay
          /\ HasLine(board, lastPlay)
          /\ lastCall.op = "on_end" => lastCall.game_state = Won(lastPlay)

\* on_end received the first player's win by a move that completed the first
\* row and the first column at once.
C20_Witness ==
    /\ nEnd = 1
    /\ endState = Won(first)
    /\ lastPlay = first
    /\ Uniform(board, {1, 2, 3}, first)
    /\ Uniform(board, {1, 4, 7}, first)

----------------------------------------------------------------------------
(* Further properties of the Board *)

\* C13: the keys of the board are exactly 1..9 in every state reached by
\* set_tile calls, also calls with an index outside 1..9: such a call panics
\* instead of returning an error and adds no key.
C13_KeysFixed ==
    /\ [](DOMAIN board = 1..9)
    /\ []((lastCall.op = "set_tile" /\ lastCall.index \notin 1..9) =>
             /\ lastCall.panicked
             /\ lastCall.result.tag \notin {"Ok", "Err"}
             /\ pc = "board_panicked")
    /\ [](pc = "board_panicked" =>
             (lastCall.op = "set_tile" /\ lastCall.index \notin 1..9))
    /\ [][(SetTileStep /\ lastCall'.index \notin 1..9) => board' = board]_vars

\* set_tile(0, ..) panicked on a board holding marks.
C13_Witness ==
    /\ pc = "board_panicked"
    /\ lastCall.op = "set_tile"
    /\ lastCall.index = 0
    /\ MarkCount(board, X) >= 1

\* The triples in the order get_winner is said to scan them.
TripleOrder == << {1, 2, 3}, {4, 5, 6}, {7, 8, 9},
                  {1, 4, 7}, {2, 5, 8}, {3, 6, 9},
                  {1, 5, 9}, {3, 5, 7} >>

\* C15: on every board, boards with complete triples of both signs among
\* them, get_winner returns no winner iff no triple is uniformly marked, and
\* else the sign of the first uniformly marked triple in the fixed order.
C15_FirstTripleWins ==
    LET hits == {k \in 1..8 : \E sign \in Sign :
                                 Uniform(board, TripleOrder[k], sign)}
        earliest == CHOOSE k \in hits : \A j \in hits : k <= j
    IN  IF hits = {} THEN get_winner(board) = None
        ELSE \E sign \in Sign :
                /\ Uniform(board, TripleOrder[earliest], sign)
                /\ get_winner(board) = Some(sign)

\* get_winner answered O on a board whose second row is O and third row X.
C15_Witness ==
    /\ pc = "board_returned"
    /\ lastCall.op = "get_winner"
    /\ lastCall.result = Some(O)
    /\ Uniform(board, {4, 5, 6}, O)
    /\ Uniform(board, {7, 8, 9}, X)

\* C18: cells are monotonic across any sequence of set_tile calls, successful
\* or not: a marked cell keeps its sign for ever, no cell returns to Empty,
\* and the number of marked cells never decreases and grows by exactly one
\* per successful call.
C18_CellsMonotonic ==
    [][/\ \A i \in 1..9 : board[i] # Empty => board'[i] = board[i]
       /\ LET before == MarkCount(board, O) + MarkCount(board, X)
              after == MarkCount(board', O) + MarkCount(board', X)
          IN  /\ after >= before
              /\ (SetTileStep /\ lastCall'.result.tag = "Ok") =>
                    after = before + 1
              /\ after # before =>
                    (SetTileStep /\ lastCall'.result.tag = "Ok"
                        /\ after = before + 1)
      ]_vars

\* set_tile was refused on a full board, for the sign the cell holds.
C18_Witness ==
    /\ pc = "board_returned"
    /\ lastCall.op = "set_tile"
    /\ lastCall.result.tag = "Err"
    /\ board[lastCall.index] = Marked(lastCall.sign)
    /\ AllMarked(board)

----------------------------------------------------------------------------
(* Properties of a turn of run *)

Plays == nPlay[O] + nPlay[X]

\* The sign whose turn it is, from the marks on the board.
TurnSign == IF Lead = 0 THEN first ELSE OtherSign(first)

\* C16: a turn is show_board once, then retrieve_input once and once more
\* for each input that leaves the board as it was, then on_play once: the
\* call after a turn's show_board is the first retrieve_input, a rejected
\* input adds one retrieve_input and no show_board, an accepted one adds
\* none and is followed by on_play with the current player and the index of
\* the one cell that changed, and after on_play comes the next turn's
\* show_board or on_end; show_board has been called once per move plus once
\* in a turn under way, and once more when run has returned.
C16_TurnOrder ==
    /\ [][ /\ (nShow' # nShow /\ nEnd = 0) =>
                /\ lastCall'.op = "show_board"
                /\ lastCall'.board = board /\ board' = board
                /\ nShow' = nShow + 1 /\ nShow = Plays
                /\ nRetrieve = 0 /\ nRetrieve' = 0
           /\ (CallMade /\ lastCall.op = "show_board" /\ nEnd = 0) =>
                /\ lastCall'.op = "retrieve_input"
                /\ nRetrieve' = 1
           /\ (CallMade /\ lastCall.op = "retrieve_input") =>
                /\ lastCall'.op \in {"retrieve_input", "on_play"}
                /\ nShow' = nShow
           /\ (CallMade /\ lastCall.op = "on_play") =>
                /\ lastCall'.op \in {"show_board", "on_end"}
                /\ nRetrieve = 0
           /\ (InputRead /\ board' = board) =>
                /\ lastCall'.op = "retrieve_input"
                /\ nRetrieve' = nRetrieve + 1
                /\ nPlay' = nPlay /\ nShow' = nShow
           /\ (InputRead /\ board' # board) =>
                /\ lastCall'.op = "on_play"
                /\ lastCall'.sign = current_player.sign
                /\ lastCall'.index \in 1..9
                /\ board[lastCall'.index] = Empty
                /\ board' = [board EXCEPT ![lastCall'.index] =
                                               Marked(current_player.sign)]
                /\ nPlay' = [nPlay EXCEPT ![current_player.sign] = @ + 1]
                /\ nRetrieve' = nRetrieve /\ nShow' = nShow
           /\ nPlay' # nPlay => InputRead /\ board' # board
          ]_vars
    /\ [](pc = "retrieve_input" => nRetrieve >= 1 /\ nShow = Plays + 1)
    /\ [](pc = "advance" =>
             lastCall.op = "on_play" /\ nRetrieve >= 1 /\ nShow = Plays)
    /\ [](pc = "done" => nShow = Plays + 1)

\* The move on cell 5 was applied at the third retrieve_input of its turn,
\* after two re-prompts, in the third turn of the game.
C16_Witness ==
    /\ pc = "advance"
    /\ lastCall = [op |-> "on_play", sign |-> first, index |-> 5]
    /\ nRetrieve = 3
    /\ Plays = 3
    /\ nShow = 3
    /\ board[5] = Marked(first)

\* C17: in a turn validation comes before occupancy. A text that writes no
\* index in 1..9 does not reach set_tile and is answered by retrieve_input
\* with the range message; a text that writes the index of a marked cell
\* reaches set_tile and is answered by retrieve_input with the
\* already-marked message; neither changes the board. The message of each
\* retrieve_input of a turn after the first is the error of the text
\* rejected just before, and the message of the first names the sign whose
\* turn it is.
C17_ValidationFirst ==
    /\ [][InputRead =>
             /\ lastInput'.kind \in {"no_index", "marked_cell", "empty_cell"}
             /\ lastInput'.kind = "no_index" =>
                   /\ ~lastInput'.called
                   /\ board' = board
                   /\ lastCall' = [op |-> "retrieve_input",
                                   message |-> "Please enter a number between 1 and 9"]
             /\ lastInput'.kind = "marked_cell" =>
                   /\ lastInput'.called
                   /\ board' = board
                   /\ lastCall' = [op |-> "retrieve_input",
                                   message |-> "This tile is already marked. Please try another tile"]
             /\ lastInput'.kind = "empty_cell" =>
                   /\ lastInput'.called
                   /\ lastCall'.op = "on_play"
          ]_vars
    /\ [](pc = "retrieve_input" =>
             /\ lastCall.op = "retrieve_input"
             /\ current_player.sign = TurnSign
             /\ lastInput.kind = "none" <=> nRetrieve = 1
             /\ lastCall.message =
                   CASE lastInput.kind = "none" ->
                          IF TurnSign = O
                          THEN "O, please enter a tile number (1-9):"
                          ELSE "X, please enter a tile number (1-9):"
                     [] lastInput.kind = "no_index" ->
                          "Please enter a number between 1 and 9"
                     [] lastInput.kind = "marked_cell" ->
                          "This tile is already marked. Please try another tile"
                     [] OTHER -> "")

\* In a turn of X with cells marked, a text naming a marked cell was rejected
\* and then a text that writes no index: X is asked again with the range
\* message, and set_tile was not called for that text.
C17_Witness ==
    /\ pc = "retrieve_input"
    /\ current_player.sign = X
    /\ nRetrieve = 3
    /\ lastInput = [kind |-> "no_index", called |-> FALSE]
    /\ lastCall.message = ErrRange
    /\ Plays >= 2

====
